---- MODULE Spec2Model ----
(***************************************************************************)
(* faas-cli local-run (commands/local_run.go): runFunction resolves one    *)
(* function of the stack file, builds the `docker run` argument list with  *)
(* buildDockerRun and either prints it or starts it as a subprocess.       *)
(*                                                                         *)
(* Arguments are modelled as the strings fmt.Sprintf produces.  A Go map   *)
(* (fnc.Environment, the map returned by readFiles, opts.extraEnv) is a    *)
(* function from its keys to values, and `for name, value := range m`      *)
(* visits the keys in an order the Go runtime picks anew on every loop:    *)
(* the order is a nondeterministic choice among the permutations of the    *)
(* keys.                                                                   *)
(***************************************************************************)
EXTENDS Integers, Sequences, FiniteSets, TLC

VARIABLES
    fnc,      \* stack.Function handed to buildDockerRun
    opts,     \* runOptions (print, port, network, extraEnv)
    fs,       \* the filesystem: working directory, .secrets, env files, .gitignore
    pc,       \* position of runFunction
    cmd,      \* the *exec.Cmd returned by buildDockerRun (its args), or None
    ret,      \* what runFunction returned, Running while it has not returned
    output,   \* lines written to opts.output
    stdout,   \* lines runFunction itself prints with fmt.Printf
    started,  \* number of successful cmd.Start() in this run of runFunction
    trace,    \* the steps this run of runFunction has taken, in order
    calls,    \* record of every buildDockerRun call: filesystem before, result
    runs      \* number of runFunction invocations so far

vars == <<fnc, opts, fs, pc, cmd, ret, output, stdout, started, trace, calls, runs>>

-----------------------------------------------------------------------------
(* Bounds of the model *)

MaxRuns == 2          \* invocations of runFunction on the same inputs
MaxEnvEntries == 3    \* entries over the three environment maps together
MaxSecrets == 2       \* length of fnc.Secrets

-----------------------------------------------------------------------------
(* Constants of the program *)

localSecretsDir == ".secrets"
SecretsDirMode == "0700"
DefaultPort == 8080

\* a Go error value: NoErr is nil, StillRunning stands for "has not returned"
NoErr == [kind |-> "nil"]
StillRunning == [kind |-> "running"]
Missing == "<no such file>"
\* a pointer or an optional value is a sequence of length 0 (nil) or 1
None == <<>>
Some(v) == <<v>>

-----------------------------------------------------------------------------
(* Input domains *)

Keys == {"FOO", "fprocess"}
Values == {"bar", "baz"}
Ports == {DefaultPort, 8081}
Networks == {"", "host"}
Images == {"ghcr.io/openfaas/stronghash:latest"}
SecretNames == {"token", "api-key"}
Cwd == "/home/dev/fn"
EnvFileNames == {"env.yml"}
ExistingDirMode == "0755"  \* a directory made by the user
TemplateFprocess == "node index.js"

MapsTo(V) == UNION {[D -> V] : D \in SUBSET Keys}
\* the stack file and the environment file each give one value, the -e options
\* repeat it or override it
Maps == MapsTo(Values)
DefinitionMaps == MapsTo({"bar"})
FileMaps == MapsTo({"baz"})
EmptyMap == [k \in {} |-> "bar"]

SeqsUpTo(S, n) == UNION {[1..k -> S] : k \in 0..n}

-----------------------------------------------------------------------------
(* Helpers *)

\* all the orders in which `range` may visit the keys of a map
Orders(S) ==
    {s \in [1..Cardinality(S) -> S] : \A i, j \in DOMAIN s : i # j => s[i] # s[j]}

RECURSIVE JoinSep(_, _)
JoinSep(s, sep) ==
    IF Len(s) = 0 THEN ""
    ELSE IF Len(s) = 1 THEN s[1]
    ELSE s[1] \o sep \o JoinSep(Tail(s), sep)

-----------------------------------------------------------------------------
(* Collaborators of other files of the package, by their contract *)

\* deriveFprocess: the fprocess of the language template, an error when the
\* template cannot be read
deriveFprocess(f, filesys) ==
    IF filesys.template = Missing
    THEN [err |-> [kind |-> "fprocess"], fprocess |-> ""]
    ELSE [err |-> NoErr, fprocess |-> filesys.template]

\* readFiles: the key=value pairs of the files, read in the listed order, a
\* later file overriding an earlier one; an error when a file cannot be read
RECURSIVE readFiles(_, _)
readFiles(files, filesys) ==
    IF Len(files) = 0 THEN [err |-> NoErr, env |-> EmptyMap]
    ELSE LET file == filesys.envFiles[files[1]]
             rest == readFiles(Tail(files), filesys)
         IN  IF file = None THEN [err |-> [kind |-> "envfile"], env |-> EmptyMap]
             ELSE IF rest.err # NoErr THEN rest
             ELSE [err |-> NoErr,
                   env |-> [k \in DOMAIN file[1] \cup DOMAIN rest.env |->
                              IF k \in DOMAIN rest.env THEN rest.env[k] ELSE file[1][k]]]

-----------------------------------------------------------------------------
(* Operating system calls *)

\* filepath.Abs: the working directory joined with the name; fails when the
\* working directory cannot be determined
Abs(filesys, name) ==
    IF filesys.cwdOk
    THEN [err |-> NoErr, path |-> Cwd \o "/" \o name]
    ELSE [err |-> [kind |-> "getwd"], path |-> ""]

\* os.MkdirAll(path, 0700) on the secrets directory: nothing to do when it is a
\* directory already, an error when the path is a file or cannot be created
MkdirAll(filesys, mode) ==
    CASE filesys.dir = "dir" -> [err |-> NoErr, fs |-> filesys]
      [] filesys.dir = "notdir" -> [err |-> [kind |-> "mkdir"], fs |-> filesys]
      [] filesys.dir = "absent" /\ ~filesys.writable ->
            [err |-> [kind |-> "mkdir"], fs |-> filesys]
      [] filesys.dir = "absent" /\ filesys.writable ->
            [err |-> NoErr,
             fs |-> [filesys EXCEPT !.dir = "dir", !.mode = mode, !.files = {}]]

\* os.Stat(filepath.Join(dir, name)) succeeds
Stat(filesys, name) == filesys.dir = "dir" /\ name \in filesys.files

-----------------------------------------------------------------------------
(* buildDockerRun, region by region *)

PortFlag(port) == "-p=" \o ToString(port) \o ":8080"
NetworkFlag(network) == "--network=" \o network
EnvFlag(name, value) == "-e=" \o name \o "=" \o value
VolumeFlag(secretsPath) == "--volume=" \o secretsPath \o ":/var/openfaas/secrets"
MemoryFlag(m) == "--memory-reservation=" \o m
CPUFlag(c) == "--cpus=" \o c
FprocessFlag(fprocess) == "-e=fprocess=" \o fprocess

BaseArgs(o) == <<"run", "--rm", "-i", PortFlag(o.port)>>

NetworkArgs(o) ==
    IF o.network # "" THEN <<NetworkFlag(o.network)>> ELSE <<>>

\* one `for name, value := range m` loop, visiting the keys in the order ord
RangeEnv(m, ord) == [i \in 1..Len(ord) |-> EnvFlag(ord[i], m[ord[i]])]

\* the loop over opts.extraEnv placed first
EnvArgsExtraFirst(environment, moreEnv, extraEnv, ordE, ordF, ordX) ==
    RangeEnv(extraEnv, ordX) \o RangeEnv(environment, ordE) \o RangeEnv(moreEnv, ordF)

EnvArgs(environment, moreEnv, extraEnv, ordE, ordF, ordX) ==
    RangeEnv(environment, ordE) \o RangeEnv(moreEnv, ordF) \o RangeEnv(extraEnv, ordX)

ReadOnlyArgs(f) ==
    IF f.ReadOnlyRootFilesystem THEN <<"--read-only">> ELSE <<>>

\* the CPU flag appended before the memory flag
LimitArgsCPUFirst(f) ==
    IF f.Limits # None
    THEN (IF f.Limits[1].CPU # "" THEN <<CPUFlag(f.Limits[1].CPU)>> ELSE <<>>)
         \o (IF f.Limits[1].Memory # "" THEN <<MemoryFlag(f.Limits[1].Memory)>> ELSE <<>>)
    ELSE <<>>

LimitArgs(f) ==
    IF f.Limits # None
    THEN (IF f.Limits[1].Memory # "" THEN <<MemoryFlag(f.Limits[1].Memory)>> ELSE <<>>)
         \o (IF f.Limits[1].CPU # "" THEN <<CPUFlag(f.Limits[1].CPU)>> ELSE <<>>)
    ELSE <<>>

\* returns at the first missing file
dirContainsFilesFailFast(filesys, dir, names) ==
    LET missing == SelectSeq(names, LAMBDA name : ~Stat(filesys, name))
    IN  IF Len(missing) > 0
        THEN [kind |-> "missingFileError", missing |-> <<missing[1]>>, dir |-> dir]
        ELSE NoErr

dirContainsFiles(filesys, dir, names) ==
    LET missing == SelectSeq(names, LAMBDA name : ~Stat(filesys, name))
    IN  IF Len(missing) > 0
        THEN [kind |-> "missingFileError", missing |-> missing, dir |-> dir]
        ELSE NoErr

\* the secret files are checked in print mode too
SecretsArgsCheckInPrint(f, o, filesys) ==
    IF Len(f.Secrets) > 0
    THEN LET abs == Abs(filesys, localSecretsDir)
             mk == MkdirAll(filesys, SecretsDirMode)
             chk == dirContainsFiles(mk.fs, abs.path, f.Secrets)
         IN  IF abs.err # NoErr
             THEN [err |-> [kind |-> "can't determine secrets folder"],
                   args |-> <<>>, fs |-> filesys]
             ELSE IF mk.err # NoErr
             THEN [err |-> [kind |-> "can't create local secrets folder",
                            dir |-> abs.path],
                   args |-> <<>>, fs |-> mk.fs]
             ELSE IF TRUE /\ chk # NoErr
             THEN [err |-> [kind |-> "missing files", cause |-> chk],
                   args |-> <<>>, fs |-> mk.fs]
             ELSE [err |-> NoErr, args |-> <<VolumeFlag(abs.path)>>, fs |-> mk.fs]
    ELSE [err |-> NoErr, args |-> <<>>, fs |-> filesys]

\* the block is entered without a declared secret
SecretsArgsNoGuard(f, o, filesys) ==
    IF TRUE
    THEN LET abs == Abs(filesys, localSecretsDir)
             mk == MkdirAll(filesys, SecretsDirMode)
             chk == dirContainsFiles(mk.fs, abs.path, f.Secrets)
         IN  IF abs.err # NoErr
             THEN [err |-> [kind |-> "can't determine secrets folder"],
                   args |-> <<>>, fs |-> filesys]
             ELSE IF mk.err # NoErr
             THEN [err |-> [kind |-> "can't create local secrets folder",
                            dir |-> abs.path],
                   args |-> <<>>, fs |-> mk.fs]
             ELSE IF ~o.print /\ chk # NoErr
             THEN [err |-> [kind |-> "missing files", cause |-> chk],
                   args |-> <<>>, fs |-> mk.fs]
             ELSE [err |-> NoErr, args |-> (IF Len(f.Secrets) > 0 THEN <<VolumeFlag(abs.path)>> ELSE <<>>), fs |-> mk.fs]
    ELSE [err |-> NoErr, args |-> <<>>, fs |-> filesys]

\* the directory is not made in print mode
SecretsArgsNoMkdirInPrint(f, o, filesys) ==
    IF Len(f.Secrets) > 0
    THEN LET abs == Abs(filesys, localSecretsDir)
             mk == (IF o.print THEN [err |-> NoErr, fs |-> filesys] ELSE MkdirAll(filesys, SecretsDirMode))
             chk == dirContainsFiles(mk.fs, abs.path, f.Secrets)
         IN  IF abs.err # NoErr
             THEN [err |-> [kind |-> "can't determine secrets folder"],
                   args |-> <<>>, fs |-> filesys]
             ELSE IF mk.err # NoErr
             THEN [err |-> [kind |-> "can't create local secrets folder",
                            dir |-> abs.path],
                   args |-> <<>>, fs |-> mk.fs]
             ELSE IF ~o.print /\ chk # NoErr
             THEN [err |-> [kind |-> "missing files", cause |-> chk],
                   args |-> <<>>, fs |-> mk.fs]
             ELSE [err |-> NoErr, args |-> <<VolumeFlag(abs.path)>>, fs |-> mk.fs]
    ELSE [err |-> NoErr, args |-> <<>>, fs |-> filesys]

\* the `if len(fnc.Secrets) > 0` block
SecretsArgs(f, o, filesys) ==
    IF Len(f.Secrets) > 0
    THEN LET abs == Abs(filesys, localSecretsDir)
             mk == MkdirAll(filesys, SecretsDirMode)
             chk == dirContainsFiles(mk.fs, abs.path, f.Secrets)
         IN  IF abs.err # NoErr
             THEN [err |-> [kind |-> "can't determine secrets folder"],
                   args |-> <<>>, fs |-> filesys]
             ELSE IF mk.err # NoErr
             THEN [err |-> [kind |-> "can't create local secrets folder",
                            dir |-> abs.path],
                   args |-> <<>>, fs |-> mk.fs]
             ELSE IF ~o.print /\ chk # NoErr
             THEN [err |-> [kind |-> "missing files", cause |-> chk],
                   args |-> <<>>, fs |-> mk.fs]
             ELSE [err |-> NoErr, args |-> <<VolumeFlag(abs.path)>>, fs |-> mk.fs]
    ELSE [err |-> NoErr, args |-> <<>>, fs |-> filesys]

\* the image appended before the fprocess flag
FinalArgsImageFirst(fprocess, image) == <<image, FprocessFlag(fprocess)>>

FinalArgs(fprocess, image) == <<FprocessFlag(fprocess), image>>

Failed(e, filesys) == [ok |-> FALSE, args |-> <<>>, err |-> e, fs |-> filesys]

buildDockerRun(f, o, filesys, ordE, ordF, ordX) ==
    LET fp == deriveFprocess(f, filesys)
        more == readFiles(f.EnvironmentFile, filesys)
        sec == SecretsArgs(f, o, filesys)
    IN  IF fp.err # NoErr THEN Failed(fp.err, filesys)
        ELSE IF more.err # NoErr THEN Failed(more.err, filesys)
        ELSE IF sec.err # NoErr THEN Failed(sec.err, sec.fs)
        ELSE [ok |-> TRUE,
              args |-> BaseArgs(o) \o NetworkArgs(o)
                       \o EnvArgs(f.Environment, more.env, o.extraEnv, ordE, ordF, ordX)
                       \o ReadOnlyArgs(f) \o LimitArgs(f)
                       \o sec.args \o FinalArgs(fp.fprocess, f.Image),
              err |-> NoErr,
              fs |-> sec.fs]

\* exec.Cmd.String(): the program and its arguments joined by spaces
CmdString(args) == JoinSep(<<"docker">> \o args, " ")

-----------------------------------------------------------------------------
(* Initial states: the inputs of one `faas-cli local-run NAME` *)

FunctionName == "stronghash"

Size(m) == Cardinality(DOMAIN m)

\* fnc.EnvironmentFile and what the file holds (None: the file cannot be read)
EnvFileCases ==
    {<<files, content>> \in
        {<<>>, <<"env.yml">>} \X ({None} \cup {Some(m) : m \in FileMaps}) :
        files = <<>> => content = None}

FileSize(content) == IF content = None THEN 0 ELSE Size(content[1])

\* the secrets directory on disk before the run
Disk(cwdOk, dir, writable, files) ==
    [cwdOk |-> cwdOk, dir |-> dir, writable |-> writable,
     mode |-> IF dir = "dir" THEN ExistingDirMode ELSE "", files |-> files]

NoDisk == Disk(TRUE, "absent", TRUE, {})

Disks ==
    {NoDisk, Disk(TRUE, "absent", FALSE, {}), Disk(TRUE, "notdir", TRUE, {}),
     Disk(FALSE, "absent", TRUE, {})}
    \cup {Disk(TRUE, "dir", TRUE, F) : F \in SUBSET SecretNames}

LimitCases ==
    {None} \cup {Some(l) : l \in [Memory : {"", "128m"}, CPU : {"", "0.5"}]}

InitWith(env, envFile, extraEnv, network, port, print, readOnly, limits, secrets, disk, template) ==
    /\ fnc = [Image |-> CHOOSE i \in Images : TRUE,
              Environment |-> env,
              EnvironmentFile |-> envFile[1],
              Secrets |-> secrets,
              Limits |-> limits,
              ReadOnlyRootFilesystem |-> readOnly]
    /\ opts = [print |-> print, port |-> port, network |-> network,
               extraEnv |-> extraEnv]
    /\ fs = [cwdOk |-> disk.cwdOk, dir |-> disk.dir, writable |-> disk.writable,
             mode |-> disk.mode, files |-> disk.files,
             envFiles |-> [n \in EnvFileNames |-> envFile[2]],
             template |-> template,
             gitignore |-> FALSE]
    /\ pc = "resolving"
    /\ cmd = None
    /\ ret = StillRunning
    /\ output = <<>>
    /\ stdout = <<>>
    /\ started = 0
    /\ trace = <<>>
    /\ calls = <<>>
    /\ runs = 1

\* every combination of the three environment maps
InitEnv ==
    \E env \in DefinitionMaps, envFile \in EnvFileCases, extraEnv \in Maps,
       network \in Networks, print \in BOOLEAN :
        /\ Size(env) + FileSize(envFile[2]) + Size(extraEnv) <= MaxEnvEntries
        /\ InitWith(env, envFile, extraEnv, network, DefaultPort, print, FALSE, None,
                    <<>>, NoDisk, TemplateFprocess)

SmallEnvs ==
    {<<EmptyMap, EmptyMap>>, <<[k \in {"FOO"} |-> "bar"], [k \in {"fprocess"} |-> "baz"]>>}

\* every combination of the declared secrets and the disk
InitSecrets ==
    \E e \in SmallEnvs, envFile \in {<<<<>>, None>>, <<<<"env.yml">>, None>>},
       print \in BOOLEAN,
       secrets \in SeqsUpTo(SecretNames, MaxSecrets), disk \in Disks,
       template \in {Missing, TemplateFprocess} :
        InitWith(e[1], envFile, e[2], "", DefaultPort, print, FALSE, None,
                 secrets, disk, template)

\* every combination of the network, the port, the read-only flag and the limits
InitShape ==
    \E e \in SmallEnvs, network \in Networks, port \in Ports, print \in BOOLEAN,
       readOnly \in BOOLEAN, limits \in LimitCases,
       sd \in {<<<<>>, NoDisk>>, <<<<"token">>, NoDisk>>,
               <<<<"token">>, Disk(TRUE, "dir", TRUE, {"token"})>>} :
        InitWith(e[1], <<<<>>, None>>, e[2], network, port, print, readOnly, limits,
                 sd[1], sd[2], TemplateFprocess)

Init == InitEnv \/ InitSecrets \/ InitShape

-----------------------------------------------------------------------------
(* runFunction, step by step *)

Return(e) ==
    /\ ret' = e
    /\ pc' = "done"

Step(name) == trace' = Append(trace, name)

\* stack.ParseYAMLFile and the check that one function matched
Resolve ==
    /\ pc = "resolving"
    /\ \E loaderErr \in BOOLEAN, matching \in 1..2 :
        IF loaderErr THEN Return([kind |-> "loader"]) /\ Step("resolve: error")
        ELSE IF matching > 1
        THEN Return([kind |-> "multiple functions matching"]) /\ Step("resolve: error")
        ELSE /\ pc' = "bookkeeping"
             /\ ret' = ret
             /\ Step("resolve: ok")
    /\ UNCHANGED <<fnc, opts, fs, cmd, output, stdout, started, calls, runs>>

\* updateGitignore
UpdateGitignore ==
    /\ pc = "bookkeeping"
    /\ \E ok \in BOOLEAN :
        IF ok THEN /\ fs' = [fs EXCEPT !.gitignore = TRUE]
                   /\ pc' = "building"
                   /\ ret' = ret
                   /\ Step("gitignore: ok")
        ELSE /\ Return([kind |-> "gitignore"])
             /\ fs' = fs
             /\ Step("gitignore: error")
    /\ UNCHANGED <<fnc, opts, cmd, output, stdout, started, calls, runs>>

\* cmd, err := buildDockerRun(ctx, fnc, opts)
Build ==
    /\ pc = "building"
    /\ \E ordE \in Orders(DOMAIN fnc.Environment),
          ordF \in Orders(DOMAIN readFiles(fnc.EnvironmentFile, fs).env),
          ordX \in Orders(DOMAIN opts.extraEnv) :
        LET r == buildDockerRun(fnc, opts, fs, ordE, ordF, ordX)
        IN  /\ fs' = r.fs
            /\ calls' = Append(calls, [before |-> fs, ok |-> r.ok, args |-> r.args,
                                       err |-> r.err, after |-> r.fs])
            /\ IF r.ok THEN /\ cmd' = Some(r.args)
                            /\ pc' = "built"
                            /\ ret' = ret
                            /\ Step("build: ok")
               ELSE /\ Return(r.err)
                    /\ cmd' = None
                    /\ Step("build: error")
    /\ UNCHANGED <<fnc, opts, output, stdout, started, runs>>

\* if opts.print { fmt.Fprintf(opts.output, "%s\n", cmd.String()); return nil }
PrintCmd ==
    /\ pc = "built"
    /\ opts.print
    /\ output' = Append(output, CmdString(cmd[1]))
    /\ Return(NoErr)
    /\ Step("print")
    /\ UNCHANGED <<fnc, opts, fs, cmd, stdout, started, calls, runs>>

\* the subprocess started in print mode too
StartAlsoInPrint ==
    /\ pc = "built"
    /\ stdout' = Append(stdout, "Starting local-run for: " \o FunctionName
                                \o " on: http://0.0.0.0:" \o ToString(opts.port))
    /\ \E startErr \in BOOLEAN :
        IF startErr THEN /\ Return([kind |-> "start"])
                         /\ started' = started
                         /\ Step("start: error")
        ELSE /\ started' = started + 1
             /\ pc' = "running"
             /\ ret' = ret
             /\ Step("start: ok")
    /\ UNCHANGED <<fnc, opts, fs, cmd, output, calls, runs>>

\* the notice, then cmd.Start()
Start ==
    /\ pc = "built"
    /\ ~opts.print
    /\ stdout' = Append(stdout, "Starting local-run for: " \o FunctionName
                                \o " on: http://0.0.0.0:" \o ToString(opts.port))
    /\ \E startErr \in BOOLEAN :
        IF startErr THEN /\ Return([kind |-> "start"])
                         /\ started' = started
                         /\ Step("start: error")
        ELSE /\ started' = started + 1
             /\ pc' = "running"
             /\ ret' = ret
             /\ Step("start: ok")
    /\ UNCHANGED <<fnc, opts, fs, cmd, output, calls, runs>>

\* return cmd.Wait(): the container writes to opts.output and exits
Wait ==
    /\ pc = "running"
    /\ output' = Append(output, "<container output>")
    /\ \E exitErr \in BOOLEAN :
        Return(IF exitErr THEN [kind |-> "exit status 1"] ELSE NoErr)
    /\ Step("wait")
    /\ UNCHANGED <<fnc, opts, fs, cmd, stdout, started, calls, runs>>

\* the command is run again, on the same stack file and with the same flags
Invoke ==
    /\ pc = "done"
    /\ runs < MaxRuns
    /\ runs' = runs + 1
    /\ pc' = "resolving"
    /\ cmd' = None
    /\ ret' = StillRunning
    /\ output' = <<>>
    /\ stdout' = <<>>
    /\ started' = 0
    /\ trace' = <<>>
    /\ UNCHANGED <<fnc, opts, fs, calls>>

Next ==
    \/ Resolve
    \/ UpdateGitignore
    \/ Build
    \/ PrintCmd
    \/ Start
    \/ Wait
    \/ Invoke

Spec == Init /\ [][Next]_vars

-----------------------------------------------------------------------------
(* Reading the recorded calls of buildDockerRun *)

Calls == {calls[i] : i \in DOMAIN calls}
Succeeded == {c \in Calls : c.ok}

HasPrefix(a, p) == Len(a) >= Len(p) /\ SubSeq(a, 1, Len(p)) = p

Indices(args, p) == {i \in DOMAIN args : HasPrefix(args[i], p)}

\* the environment of the call: the definition's map, the map read from the
\* environment files on the disk of the call, the map of the -e options
DefinitionEnv == fnc.Environment
FileEnv(c) == readFiles(fnc.EnvironmentFile, c.before).env
ExtraEnv == opts.extraEnv

FlagsOf(m) == {"-e=" \o k \o "=" \o m[k] : k \in DOMAIN m}

SecretsPath == Cwd \o "/.secrets"
TheVolumeFlag == "--volume=" \o SecretsPath \o ":/var/openfaas/secrets"

HasSecrets == Len(fnc.Secrets) > 0

\* what has to go well before the secret files matter: the fprocess is
\* derived, the environment files are read, the secrets directory is resolved
\* and is, or can be made, a directory
DeriveAndEnvOk(c) ==
    /\ c.before.template # Missing
    /\ \A i \in DOMAIN fnc.EnvironmentFile :
            c.before.envFiles[fnc.EnvironmentFile[i]] # None
SecretsDirOk(c) ==
    /\ c.before.cwdOk
    /\ \/ c.before.dir = "dir"
       \/ c.before.dir = "absent" /\ c.before.writable

\* the declared secrets with no file in the secrets directory, in declaration order
Absent(c) ==
    SelectSeq(fnc.Secrets,
              LAMBDA n : ~(c.before.dir = "dir" /\ n \in c.before.files))

-----------------------------------------------------------------------------
(* C1 *)

\* C1: on success, an empty network gives exactly one port-publish flag
\* -p=<port>:8080 and no --network= flag; a non-empty network gives the flag
\* --network=<network> and no port-publish flag.
C1_PortOrNetwork ==
    \A c \in Succeeded :
        IF opts.network = ""
        THEN /\ Cardinality(Indices(c.args, "-p=")) = 1
             /\ \E i \in DOMAIN c.args :
                    c.args[i] = "-p=" \o ToString(opts.port) \o ":8080"
             /\ Indices(c.args, "--network=") = {}
        ELSE /\ \E i \in DOMAIN c.args : c.args[i] = "--network=" \o opts.network
             /\ Indices(c.args, "-p=") = {}

-----------------------------------------------------------------------------
(* C2 *)

\* C2: on success the last two arguments are -e=fprocess=<derived fprocess> and
\* the image, in this order; every environment flag of the three sources
\* (also an extraEnv entry with the key fprocess) and the secrets volume flag
\* stand before them.
C2_FprocessThenImageLast ==
    \A c \in Succeeded :
        LET n == Len(c.args)
            envFlags == FlagsOf(DefinitionEnv) \cup FlagsOf(FileEnv(c)) \cup FlagsOf(ExtraEnv)
        IN  /\ n >= 2
            /\ c.args[n - 1] = "-e=fprocess=" \o c.before.template
            /\ c.args[n] = fnc.Image
            /\ \A f \in envFlags : \E i \in 1..(n - 2) : c.args[i] = f
            /\ Indices(c.args, "-e=") \ {n - 1}
                   = {i \in 1..(n - 2) : c.args[i] \in envFlags}
            /\ HasSecrets => \E i \in 1..(n - 2) : c.args[i] = TheVolumeFlag

C2_Witness ==
    \E c \in Succeeded :
        /\ "fprocess" \in DOMAIN ExtraEnv
        /\ HasSecrets
        /\ DOMAIN DefinitionEnv # {}

-----------------------------------------------------------------------------
(* C3 *)

MissingFilesError(c) ==
    [kind |-> "missing files",
     cause |-> [kind |-> "missingFileError", missing |-> Absent(c), dir |-> SecretsPath]]

\* C3 as stated: with a declared secret and print=false the build fails if and
\* only if a declared secret has no file in the secrets directory, and the
\* failure is the one error listing exactly the absent secrets, in declaration
\* order, with the resolved directory.
C3_FailsIffSecretMissing ==
    \A c \in Calls :
        (HasSecrets /\ ~opts.print) =>
            /\ ~c.ok <=> Len(Absent(c)) > 0
            /\ ~c.ok => c.err = MissingFilesError(c)

\* C3 amended: the same, for the builds in which the fprocess is derived, the
\* environment files are read and the secrets directory is resolved and is, or
\* can be made, a directory.
C3_FailsIffSecretMissingOnceReached ==
    \A c \in Calls :
        (HasSecrets /\ ~opts.print /\ DeriveAndEnvOk(c) /\ SecretsDirOk(c)) =>
            /\ ~c.ok <=> Len(Absent(c)) > 0
            /\ ~c.ok => c.err = MissingFilesError(c) /\ c.args = <<>>

\* two secrets are declared, both are absent, and the build has failed
C3_Witness ==
    \E c \in Calls :
        /\ ~opts.print /\ DeriveAndEnvOk(c) /\ SecretsDirOk(c)
        /\ Len(Absent(c)) = 2 /\ Absent(c)[1] # Absent(c)[2]
        /\ ~c.ok

-----------------------------------------------------------------------------
(* C4 *)

\* C4 as stated: with a declared secret and print=true the build succeeds and
\* has the volume flag, whatever the state of the secrets directory.
C4_PrintAlwaysSucceeds ==
    \A c \in Calls :
        (HasSecrets /\ opts.print) =>
            c.ok /\ \E i \in DOMAIN c.args : c.args[i] = TheVolumeFlag

\* C4 amended: with a declared secret and print=true, a build in which the
\* fprocess is derived, the environment files are read and the secrets
\* directory is resolved and is, or can be made, a directory succeeds and has
\* the volume flag, whichever secret files exist.
C4_PrintSkipsSecretFileCheck ==
    \A c \in Calls :
        (HasSecrets /\ opts.print /\ DeriveAndEnvOk(c) /\ SecretsDirOk(c)) =>
            c.ok /\ \E i \in DOMAIN c.args : c.args[i] = TheVolumeFlag

\* a print build that succeeded although a declared secret has no file
C4_Witness ==
    \E c \in Succeeded :
        HasSecrets /\ opts.print /\ Len(Absent(c)) > 0 /\ c.before.dir = "dir"

-----------------------------------------------------------------------------
(* C5 *)

\* C5: with no declared secret, for both values of print, the build leaves the
\* filesystem as it was, its outcome does not depend on the secrets directory
\* (unresolvable, not a directory, not creatable), and the arguments hold no
\* --volume= flag.
C5_NoSecretsNoDirectory ==
    \A c \in Calls :
        ~HasSecrets =>
            /\ c.after = c.before
            /\ c.ok <=> DeriveAndEnvOk(c)
            /\ Indices(c.args, "--volume=") = {}

\* a build without secrets that succeeded where the directory could not have
\* been made
C5_Witness ==
    \E c \in Succeeded : ~HasSecrets /\ ~SecretsDirOk(c)

-----------------------------------------------------------------------------
(* C10 *)

\* C10: with a declared secret, for print=true as for print=false: a build that
\* reaches the directory step and can make the directory leaves it existing,
\* also when it then fails on missing secret files; a directory that exists is
\* left as it was, with its files; nothing else on the disk changes; a
\* directory that cannot be resolved or made fails the build with no arguments.
C10_SecretsDirCreated ==
    \A c \in Calls :
        (HasSecrets /\ DeriveAndEnvOk(c)) =>
            /\ SecretsDirOk(c) => c.after.dir = "dir"
            /\ c.before.dir = "dir" => c.after = c.before
            /\ c.before.files \subseteq c.after.files
            /\ c.after = [c.before EXCEPT !.dir = c.after.dir, !.mode = c.after.mode]
            /\ c.before.dir = "absent" /\ c.after.dir = "dir" => c.after.mode = "0700"
            /\ ~SecretsDirOk(c) =>
                    /\ ~c.ok /\ c.args = <<>> /\ c.after = c.before
                    /\ c.err.kind = IF c.before.cwdOk
                                    THEN "can't create local secrets folder"
                                    ELSE "can't determine secrets folder"

\* the directory was missing, the build failed on the missing secret files,
\* and the directory exists
C10_Witness ==
    \E c \in Calls :
        /\ HasSecrets /\ c.before.dir = "absent" /\ c.after.dir = "dir"
        /\ ~c.ok /\ c.err.kind = "missing files"

-----------------------------------------------------------------------------
(* C6 *)

\* the positions of the environment flags: every -e= argument but the fprocess
\* flag, which is the last but one
EnvIndices(c) == Indices(c.args, "-e=") \ {Len(c.args) - 1}

Slice(args, from, count) == {args[i] : i \in (from + 1)..(from + count)}

\* C6: on success the environment flags are three consecutive layers: the flags
\* of functionDef.Environment, then those of the values read from
\* functionDef.EnvironmentFile, then those of runOptions.extraEnv; every entry
\* of every layer has its flag (no deduplication), so a key of both Environment
\* and extraEnv has two flags, the extraEnv one after the Environment one.
C6_ThreeEnvLayersInOrder ==
    \A c \in Succeeded :
        LET e == Size(DefinitionEnv)
            f == Size(FileEnv(c))
            x == Size(ExtraEnv)
            idx == EnvIndices(c)
            s == IF idx = {} THEN 0 ELSE (CHOOSE i \in idx : \A j \in idx : i <= j) - 1
        IN  /\ idx = (s + 1)..(s + e + f + x)
            /\ Slice(c.args, s, e) = FlagsOf(DefinitionEnv)
            /\ Slice(c.args, s + e, f) = FlagsOf(FileEnv(c))
            /\ Slice(c.args, s + e + f, x) = FlagsOf(ExtraEnv)

\* the three layers are non-empty and a key is in Environment and in extraEnv
C6_Witness ==
    \E c \in Succeeded :
        /\ DOMAIN FileEnv(c) # {}
        /\ DOMAIN DefinitionEnv \cap DOMAIN ExtraEnv # {}

-----------------------------------------------------------------------------
(* C7 *)

\* C7: two calls with the same definition, the same options and the same
\* filesystem return the same outcome and the same arguments in the same order.
C7_Deterministic ==
    \A c, d \in Calls :
        c.before = d.before => c.ok = d.ok /\ c.args = d.args

-----------------------------------------------------------------------------
(* C8 *)

Took(step) == \E i \in DOMAIN trace : trace[i] = step

FailedEarly ==
    Took("resolve: error") \/ Took("gitignore: error") \/ Took("build: error")

\* C8: in a run of runFunction the subprocess is started at most once, and only
\* as the fourth step, after the resolution, the bookkeeping and the build went
\* well, with print false; in print mode the run ends with the command line as
\* the one line of the output sink, success, and no subprocess; after a
\* failure of the resolution, the bookkeeping or the build the run has ended
\* with an error, no subprocess and nothing written to the output sink.
C8_StartOnlyAfterBuild ==
    /\ started <= 1
    /\ started = Cardinality({i \in DOMAIN trace : trace[i] = "start: ok"})
    /\ \A i \in DOMAIN trace :
            trace[i] \in {"start: ok", "start: error"} =>
                /\ i = 4
                /\ SubSeq(trace, 1, 3) = <<"resolve: ok", "gitignore: ok", "build: ok">>
                /\ ~opts.print
    /\ opts.print => started = 0
    /\ (opts.print /\ Took("build: ok") /\ pc = "done") =>
            /\ ret = NoErr
            /\ output = <<CmdString(calls[Len(calls)].args)>>
    /\ FailedEarly =>
            /\ pc = "done"
            /\ ret \notin {NoErr, StillRunning}
            /\ cmd = None
            /\ started = 0
            /\ output = <<>>

\* a run that started the subprocess and has returned
C8_Witness == pc = "done" /\ started = 1 /\ Took("wait")

-----------------------------------------------------------------------------
(* C9 *)

Region(args, i) ==
    CASE i = Len(args) -> 9
      [] i = Len(args) - 1 -> 8
      [] args[i] \in {"run", "--rm", "-i"} -> 1
      [] HasPrefix(args[i], "-p=") \/ HasPrefix(args[i], "--network=") -> 2
      [] HasPrefix(args[i], "-e=") -> 3
      [] args[i] = "--read-only" -> 4
      [] HasPrefix(args[i], "--memory-reservation=") -> 5
      [] HasPrefix(args[i], "--cpus=") -> 6
      [] HasPrefix(args[i], "--volume=") -> 7
      [] OTHER -> 0

InRegion(args, r) == {i \in DOMAIN args : Region(args, i) = r}

\* the one argument v when present, no argument otherwise
Holds(args, r, present, v) ==
    IF present
    THEN Cardinality(InRegion(args, r)) = 1 /\ \A i \in InRegion(args, r) : args[i] = v
    ELSE InRegion(args, r) = {}

\* what decides the outcome of a build; the limits are no part of it
ExpectedOk(c) ==
    /\ DeriveAndEnvOk(c)
    /\ HasSecrets => SecretsDirOk(c) /\ (opts.print \/ Len(Absent(c)) = 0)

\* C9: on success the arguments are, in this order: run --rm -i, the
\* network/port flags, the environment flags, --read-only iff
\* ReadOnlyRootFilesystem, --memory-reservation=<Memory> iff Limits is present
\* with a non-empty Memory, --cpus=<CPU> iff Limits is present with a non-empty
\* CPU, the secrets volume flag iff a secret is declared, the fprocess flag,
\* the image; absent limits or an empty limit field never fail the build.
C9_RegionOrder ==
    \A c \in Calls :
        /\ c.ok <=> ExpectedOk(c)
        /\ c.ok =>
            LET a == c.args
                lim == fnc.Limits
            IN  /\ Len(a) >= 6
                /\ SubSeq(a, 1, 3) = <<"run", "--rm", "-i">>
                /\ InRegion(a, 1) = 1..3
                /\ InRegion(a, 0) = {}
                /\ \A i \in 1..(Len(a) - 1) : Region(a, i) <= Region(a, i + 1)
                /\ InRegion(a, 2) # {}
                /\ Holds(a, 4, fnc.ReadOnlyRootFilesystem, "--read-only")
                /\ Holds(a, 5, lim # None /\ lim[1].Memory # "",
                         "--memory-reservation=" \o (IF lim = None THEN "" ELSE lim[1].Memory))
                /\ Holds(a, 6, lim # None /\ lim[1].CPU # "",
                         "--cpus=" \o (IF lim = None THEN "" ELSE lim[1].CPU))
                /\ Holds(a, 7, HasSecrets, TheVolumeFlag)
                /\ HasPrefix(a[Len(a) - 1], "-e=fprocess=")
                /\ a[Len(a)] = fnc.Image

\* a build with every region present
C9_Witness ==
    \E c \in Succeeded :
        /\ fnc.ReadOnlyRootFilesystem /\ HasSecrets /\ opts.network # ""
        /\ fnc.Limits # None /\ DOMAIN DefinitionEnv # {}
        /\ Indices(c.args, "--memory-reservation=") # {}
        /\ Indices(c.args, "--cpus=") # {}

====
